---- MODULE Spec2Model ----
(***************************************************************************)
(* Model of bin/dag2dot.py: the job graph (Job objects with level,         *)
(* parents, children), remove_xforms, inv_reachable, simplify (level       *)
(* labelling and redundant-edge elimination) and the colour assignment of  *)
(* emit_dot.                                                               *)
(*                                                                         *)
(* The parents/children lists of a Job are modelled as sets: the loaders   *)
(* are given workflows without duplicate PARENT/CHILD lines.  The order of *)
(* a list (and of dict iteration) is modelled by letting every for-loop    *)
(* take the remaining elements in any order.                               *)
(***************************************************************************)
EXTENDS Integers, Sequences, FiniteSets, TLC

\* ---------------------------------------------------------------- bounds
MaxNodes == 4
MaxFilterNodes == 4
MaxJobs == 22
MaxRuns == 2

\* ------------------------------------------------------------- constants
COLORS ==
  << "#1b9e77", "#d95f02", "#7570b3", "#e7298a", "#66a61e",
     "#e6ab02", "#a6761d", "#666666", "#8dd3c7", "#bebada",
     "#fb8072", "#80b1d3", "#fdb462", "#b3de69", "#fccde5",
     "#d9d9d9", "#bc80bd", "#ccebc5", "#ffed6f", "#ffffb3" >>

\* the surrogate root Job created by simplify (id 'root')
root == 0

XformNames == {"x", "y"}

VARIABLES
  dag,        \* keys of the dict dag
  name,       \* Job.name of every job
  level,      \* Job.level
  parents,    \* Job.parents
  children,   \* Job.children
  xforms,     \* the names given with --remove
  pc,         \* position in main / remove_xforms / simplify
  keys,       \* remove_xforms: ids of dag.keys() not yet visited
  fifo,       \* simplify: the worklist (used as a stack: append / pop)
  n,          \* simplify: the node last popped
  kids,       \* simplify: children of n the for-loop has not reached yet
  err,        \* an exception was raised (ValueError, IndexError)
  run,        \* number of calls of simplify started
  loaded,     \* history: the edges the loader built
  edges0,     \* history: the edges when simplify was first entered
  edges1,     \* history: the edges when the first simplify returned
  examined,   \* history: edges examined by the elimination loop of this call
  again,      \* history: the elimination loop examined some edge twice
  decision,   \* history: outcome of the last edge decision of the elimination
  next_color, \* emit_dot: next_color
  colorOf,    \* emit_dot: the dict xforms (name -> colour index)
  written,    \* emit_dot: number of node statements handled
  lastName,   \* emit_dot: j.name of the node handled last
  lastColor   \* emit_dot: the colour string written last

graphVars == <<dag, name, level, parents, children, xforms, pc, keys, fifo, n,
               kids, err, run, loaded, edges0, edges1, examined,
               again, decision>>
emitVars == <<next_color, colorOf, written, lastName, lastColor>>
vars == <<graphVars, emitVars>>

\* ---------------------------------------------------------------- helpers
Max(a, b) == IF a >= b THEN a ELSE b

\* the parent->child edges between jobs of the dag, read off Job.children
Edges == {e \in dag \X dag : e[2] \in children[e[1]]}

\* a list holding the elements of a set, in some order
RECURSIVE SeqOf(_)
SeqOf(S) == IF S = {} THEN <<>>
            ELSE LET x == CHOOSE y \in S : TRUE IN <<x>> \o SeqOf(S \ {x})

\* inv_reachable(a, b) over the parent lists par: the loop on the worklist
RECURSIVE inv_reachable_loop(_, _, _)
inv_reachable_loop(par, stack, b) ==
  IF stack = <<>> THEN FALSE
  ELSE LET m == stack[Len(stack)]
           rest == SubSeq(stack, 1, Len(stack) - 1)
       IN IF b \in par[m] THEN TRUE
          ELSE inv_reachable_loop(par, rest \o SeqOf(par[m]), b)

inv_reachable_always(par, a, b) == TRUE

inv_reachable(par, a, b) == inv_reachable_loop(par, <<a>>, b)

\* ------------------------------------------------------------ the graphs
\* Job(): level 0, no parents, no children; the loaders then append one
\* parent and one child reference per PARENT/CHILD line.  Any acyclic graph
\* can be numbered so that its edges go from a smaller to a larger id.
DagEdges(k) == {e \in (1..k) \X (1..k) : e[1] < e[2]}

InitGraph(k, E) ==
  /\ dag = 1..k
  /\ level = [j \in 0..k |-> 0]
  /\ children = [j \in 0..k |-> {c \in 1..k : <<j, c>> \in E}]
  /\ parents = [j \in 0..k |-> {p \in 1..k : <<p, j>> \in E}]
  /\ keys = {}
  /\ fifo = <<>>
  /\ n = root
  /\ kids = {}
  /\ err = FALSE
  /\ run = 0
  /\ loaded = E
  /\ edges0 = {}
  /\ edges1 = {}
  /\ examined = {}
  /\ again = FALSE
  /\ decision = "none"

InitEmit ==
  /\ next_color = 0
  /\ colorOf = <<>>
  /\ written = 0
  /\ lastName = 0
  /\ lastColor = ""

\* ---------------------------------------------------------- remove_xforms
\* remove_xforms(dag, xforms): "if len(xforms) == 0: return"
RemoveNone ==
  /\ pc = "remove_xforms"
  /\ xforms = {}
  /\ pc' = "simplify"
  /\ UNCHANGED <<dag, name, level, parents, children, xforms, keys, fifo, n,
                 kids, err, run, loaded, edges0, edges1, examined, again,
                 decision>>

\* "for id in dag.keys()": the list of keys is taken once
RemoveEnter ==
  /\ pc = "remove_xforms"
  /\ xforms # {}
  /\ keys' = dag
  /\ pc' = "remove_loop"
  /\ UNCHANGED <<dag, name, level, parents, children, xforms, fifo, n, kids,
                 err, run, loaded, edges0, edges1, examined, again, decision>>

\* "for p in job.parents: p.children.remove(job)", "for c in job.children:
\* c.parents.remove(job)" and "del dag[id]"; the deleted Job, which nothing
\* in dag refers to any more, is dropped with its two lists
UnlinkParentsOnly(job) ==
  /\ children' = [j \in DOMAIN children |->
                    IF j = job THEN {}
                    ELSE IF j \in parents[job] THEN children[j] \ {job}
                    ELSE children[j]]
  /\ parents' = [parents EXCEPT ![job] = {}]

Unlink(job) ==
  /\ children' = [j \in DOMAIN children |->
                    IF j = job THEN {}
                    ELSE IF j \in parents[job] THEN children[j] \ {job}
                    ELSE children[j]]
  /\ parents' = [j \in DOMAIN parents |->
                   IF j = job THEN {}
                   ELSE IF j \in children[job] THEN parents[j] \ {job}
                   ELSE parents[j]]

\* list.remove(x) raises ValueError when x is not in the list
RemoveRaises(job) ==
  \/ \E p \in parents[job] : job \notin children[p]
  \/ \E c \in children[job] : job \notin parents[c]

\* one iteration of the loop over the keys
RemoveVisit(id) ==
  /\ pc = "remove_loop"
  /\ id \in keys
  /\ keys' = keys \ {id}
  /\ IF name[id] \in xforms
       THEN IF RemoveRaises(id)
              THEN /\ err' = TRUE
                   /\ pc' = "raised"
                   /\ UNCHANGED <<dag, parents, children>>
              ELSE /\ Unlink(id)
                   /\ dag' = dag \ {id}
                   /\ UNCHANGED <<err, pc>>
       ELSE UNCHANGED <<dag, parents, children, err, pc>>
  /\ UNCHANGED <<name, level, xforms, fifo, n, kids, run, loaded, edges0, edges1,
                 examined, again, decision>>

RemoveReturn ==
  /\ pc = "remove_loop"
  /\ keys = {}
  /\ pc' = "simplify"
  /\ UNCHANGED <<dag, name, level, parents, children, xforms, keys, fifo, n,
                 kids, err, run, loaded, edges0, edges1, examined, again,
                 decision>>

\* ---------------------------------------------------------------- simplify
\* "c.level = max(c.level, n.level + 1)"
RelaxOverwrite(lc, ln) == ln + 1

Relax(lc, ln) == Max(lc, ln + 1)

\* "if dist > 1"
IsShortcutFromOne(dist) == dist >= 1

IsShortcutFromThree(dist) == dist > 2

IsShortcut(dist) == dist > 1

\* "c.parents.append(n)" after "c.parents.remove(n)"
RestoreNothing(par, c, p) == par

Restore(par, c, p) == [par EXCEPT ![c] = par[c] \cup {p}]

\* find the roots, create the surrogate root, seed the worklist
SimplifyEnter ==
  /\ LET roots == {j \in dag : parents[j] = {}}
     IN /\ children' = [children EXCEPT ![root] = roots]
        /\ parents' = [parents EXCEPT ![root] = {}]
        /\ level' = [level EXCEPT ![root] = 0]
  /\ fifo' = <<root>>
  /\ pc' = "label"
  /\ run' = run + 1
  /\ n' = root
  /\ kids' = {}
  /\ edges0' = IF run = 0 THEN Edges ELSE edges0
  /\ examined' = {}
  /\ again' = FALSE
  /\ decision' = "none"
  /\ UNCHANGED <<dag, name, xforms, keys, err, loaded, edges1>>

\* main: "if options.simplify: dag = simplify(dag)"
SimplifyStart ==
  /\ pc = "simplify"
  /\ SimplifyEnter

\* simplify called once more on the dag it returned
SimplifyAgain ==
  /\ pc = "returned"
  /\ run < MaxRuns
  /\ SimplifyEnter

\* level labelling: "n = fifo.pop()" and the start of "for c in n.children"
LabelPop ==
  /\ pc = "label"
  /\ kids = {}
  /\ fifo # <<>>
  /\ n' = fifo[Len(fifo)]
  /\ fifo' = SubSeq(fifo, 1, Len(fifo) - 1)
  /\ kids' = children[n']
  /\ UNCHANGED <<dag, name, level, parents, children, xforms, pc, keys, err,
                 run, loaded, edges0, edges1, examined, again, decision>>

\* level labelling: one iteration of "for c in n.children"
LabelChild(c) ==
  /\ pc = "label"
  /\ c \in kids
  /\ kids' = kids \ {c}
  /\ fifo' = Append(fifo, c)
  /\ level' = [level EXCEPT ![c] = Relax(level[c], level[n])]
  /\ UNCHANGED <<dag, name, parents, children, xforms, pc, keys, n, err, run,
                 loaded, edges0, edges1, examined, again, decision>>

\* the labelling worklist is empty: "fifo = [root]" of the elimination
LabelDone ==
  /\ pc = "label"
  /\ kids = {}
  /\ fifo = <<>>
  /\ fifo' = <<root>>
  /\ pc' = "elim"
  /\ UNCHANGED <<dag, name, level, parents, children, xforms, keys, n, kids,
                 err, run, loaded, edges0, edges1, examined, again, decision>>

\* elimination: "n = fifo.pop()" and "children = n.children[:]"
ElimPop ==
  /\ pc = "elim"
  /\ kids = {}
  /\ fifo # <<>>
  /\ n' = fifo[Len(fifo)]
  /\ fifo' = SubSeq(fifo, 1, Len(fifo) - 1)
  /\ kids' = children[n']
  /\ UNCHANGED <<dag, name, level, parents, children, xforms, pc, keys, err,
                 run, loaded, edges0, edges1, examined, again, decision>>

\* elimination: one iteration of "for c in children", the decision on n -> c
ElimChild(c) ==
  /\ pc = "elim"
  /\ c \in kids
  /\ kids' = kids \ {c}
  /\ fifo' = Append(fifo, c)
  /\ examined' = examined \cup {<<n, c>>}
  /\ again' = (again \/ <<n, c>> \in examined)
  /\ LET dist == level[c] - level[n]
         cut == [parents EXCEPT ![c] = parents[c] \ {n}]
     IN IF IsShortcut(dist)
          THEN IF n \notin parents[c]
                 THEN \* c.parents.remove(n) raises ValueError
                      /\ err' = TRUE
                      /\ pc' = "raised"
                      /\ decision' = "raised"
                      /\ UNCHANGED <<parents, children>>
                 ELSE IF inv_reachable(cut, c, n)
                        THEN IF c \notin children[n]
                               THEN \* n.children.remove(c) raises ValueError
                                    /\ err' = TRUE
                                    /\ pc' = "raised"
                                    /\ decision' = "raised"
                                    /\ parents' = cut
                                    /\ UNCHANGED children
                               ELSE /\ parents' = cut
                                    /\ children' = [children EXCEPT
                                                      ![n] = children[n] \ {c}]
                                    /\ decision' = "removed"
                                    /\ UNCHANGED <<err, pc>>
                        ELSE \* c.parents.append(n)
                             /\ parents' = Restore(cut, c, n)
                             /\ decision' = "restored"
                             /\ UNCHANGED <<children, err, pc>>
          ELSE /\ decision' = "kept"
               /\ UNCHANGED <<parents, children, err, pc>>
  /\ UNCHANGED <<dag, name, level, xforms, keys, n, run, loaded, edges0, edges1>>

\* the elimination worklist is empty: "return dag"
ElimDone ==
  /\ pc = "elim"
  /\ kids = {}
  /\ fifo = <<>>
  /\ pc' = "returned"
  /\ edges1' = IF run = 1 THEN Edges ELSE edges1
  /\ UNCHANGED <<dag, name, level, parents, children, xforms, keys, fifo, n,
                 kids, err, run, loaded, edges0, examined, again,
                 decision>>

\* ----------------------------------------------------------------- emit_dot
\* Transformation names are numbered in the order of their first occurrence:
\* the jobs of the dag bring a name seen before or the next new one.
EmitEnter ==
  /\ pc = "emit_dot"
  /\ pc' = "emit_nodes"
  /\ next_color' = 0
  /\ colorOf' = <<>>
  /\ UNCHANGED <<written, lastName, lastColor>>
  /\ UNCHANGED <<dag, name, level, parents, children, xforms, keys, fifo, n,
                 kids, err, run, loaded, edges0, edges1, examined,
                 again, decision>>

\* "COLORS[color]": a list index past the end raises IndexError
PaletteIndexable(color) == color < Len(COLORS)

Palette(color) == COLORS[color + 1]

\* one iteration of the first "for id in dag" for a job named nm
EmitNode(nm) ==
  /\ pc = "emit_nodes"
  /\ written < MaxJobs
  /\ nm \in 1..(next_color + 1)
  /\ written' = written + 1
  /\ lastName' = nm
  /\ colorOf' = IF nm \in DOMAIN colorOf THEN colorOf
                ELSE colorOf @@ (nm :> next_color)
  /\ next_color' = IF nm \in DOMAIN colorOf THEN next_color
                   ELSE next_color + 1
  /\ LET color == colorOf'[nm]
     IN IF PaletteIndexable(color)
          THEN /\ lastColor' = Palette(color)
               /\ UNCHANGED <<err, pc>>
          ELSE /\ err' = TRUE
               /\ pc' = "raised"
               /\ UNCHANGED lastColor
  /\ UNCHANGED <<dag, name, level, parents, children, xforms, keys, fifo, n,
                 kids, run, loaded, edges0, edges1, examined, again,
                 decision>>

\* the edge statements and "out.close()"
EmitClose ==
  /\ pc = "emit_nodes"
  /\ pc' = "emitted"
  /\ UNCHANGED emitVars
  /\ UNCHANGED <<dag, name, level, parents, children, xforms, keys, fifo, n,
                 kids, err, run, loaded, edges0, edges1, examined,
                 again, decision>>

\* ------------------------------------------------------ the specifications
\* main without --remove, on every acyclic graph of MaxNodes jobs; simplify
\* is then called MaxRuns times
Init ==
  /\ \E E \in SUBSET DagEdges(MaxNodes) : InitGraph(MaxNodes, E)
  /\ name = [j \in 0..MaxNodes |-> "y"]
  /\ xforms = {}
  /\ pc = "remove_xforms"
  /\ InitEmit

Next ==
  \/ RemoveNone /\ UNCHANGED emitVars
  \/ SimplifyStart /\ UNCHANGED emitVars
  \/ SimplifyAgain /\ UNCHANGED emitVars
  \/ LabelPop /\ UNCHANGED emitVars
  \/ (\E c \in kids : LabelChild(c)) /\ UNCHANGED emitVars
  \/ LabelDone /\ UNCHANGED emitVars
  \/ ElimPop /\ UNCHANGED emitVars
  \/ (\E c \in kids : ElimChild(c)) /\ UNCHANGED emitVars
  \/ ElimDone /\ UNCHANGED emitVars

Spec == Init /\ [][Next]_vars

\* main without --remove, simplify called once as main does; the steps of
\* the sequential program are taken as long as there is one
NextOnce ==
  \/ RemoveNone /\ UNCHANGED emitVars
  \/ SimplifyStart /\ UNCHANGED emitVars
  \/ LabelPop /\ UNCHANGED emitVars
  \/ (\E c \in kids : LabelChild(c)) /\ UNCHANGED emitVars
  \/ LabelDone /\ UNCHANGED emitVars
  \/ ElimPop /\ UNCHANGED emitVars
  \/ (\E c \in kids : ElimChild(c)) /\ UNCHANGED emitVars
  \/ ElimDone /\ UNCHANGED emitVars

LiveSpec == Init /\ [][NextOnce]_vars /\ WF_vars(NextOnce)

\* main with --remove, on every acyclic graph of MaxFilterNodes jobs with
\* every naming of the jobs; simplify is called once
InitMain ==
  /\ \E E \in SUBSET DagEdges(MaxFilterNodes) : InitGraph(MaxFilterNodes, E)
  /\ name \in [0..MaxFilterNodes -> XformNames]
  /\ name[root] = "y"
  /\ xforms \in {{"x"}, {"x", "y"}}
  /\ pc = "remove_xforms"
  /\ InitEmit

NextMain ==
  \/ RemoveEnter /\ UNCHANGED emitVars
  \/ (\E id \in keys : RemoveVisit(id)) /\ UNCHANGED emitVars
  \/ RemoveReturn /\ UNCHANGED emitVars
  \/ SimplifyStart /\ UNCHANGED emitVars
  \/ LabelPop /\ UNCHANGED emitVars
  \/ (\E c \in kids : LabelChild(c)) /\ UNCHANGED emitVars
  \/ LabelDone /\ UNCHANGED emitVars
  \/ ElimPop /\ UNCHANGED emitVars
  \/ (\E c \in kids : ElimChild(c)) /\ UNCHANGED emitVars
  \/ ElimDone /\ UNCHANGED emitVars

MainSpec == InitMain /\ [][NextMain]_vars

\* emit_dot on a dag of up to MaxJobs jobs
InitEmitDot ==
  /\ InitGraph(0, {})
  /\ name = [j \in 0..0 |-> "y"]
  /\ xforms = {}
  /\ pc = "emit_dot"
  /\ InitEmit

NextEmit ==
  \/ EmitEnter
  \/ \E nm \in 1..MaxJobs : EmitNode(nm)
  \/ EmitClose

EmitSpec == InitEmitDot /\ [][NextEmit]_vars

\* ------------------------------------------------------------- properties
\* the nodes reached from the nodes of S along the edges E (S included)
RECURSIVE Closure(_, _)
Closure(E, S) ==
  LET T == S \cup {e[2] : e \in {f \in E : f[1] \in S}}
  IN IF T = S THEN S ELSE Closure(E, T)

\* a can reach b by a path of at least one edge of E
Reach(E, a, b) == b \in Closure(E, {e[2] : e \in {f \in E : f[1] = a}})

\* the edge e of E has another path from its parent to its child
AltPath(E, e) == Reach(E \ {e}, e[1], e[2])

\* length of the longest path of E that ends in j
RECURSIVE Longest(_, _)
Longest(E, j) ==
  LET P == {e[1] : e \in {f \in E : f[2] = j}}
      L == {Longest(E, p) : p \in P}
  IN IF P = {} THEN 0 ELSE 1 + (CHOOSE m \in L : \A k \in L : k <= m)

Roots(E) == {j \in dag : \A e \in E : e[2] # j}
Gap(e) == level[e[2]] - level[e[1]]
Consistent == \A p \in dag : \A c \in dag :
                (p \in parents[c]) <=> (c \in children[p])
PaletteCyclic(color) == COLORS[(color % Len(COLORS)) + 1]
Diamond == {<<1, 2>>, <<1, 3>>, <<2, 4>>, <<3, 4>>, <<1, 4>>}

\* C1: when simplify returns, for every ordered pair of jobs (a, b), a can
\* reach b along child-direction edges iff it could when simplify was entered.
C1_ReachabilityPreserved ==
  pc = "returned" =>
    \A a \in dag : \A b \in dag : Reach(Edges, a, b) <=> Reach(edges0, a, b)

\* C1 witness: a call returned having removed an edge and having restored one
C1_Witness ==
  /\ pc = "returned"
  /\ run = 1
  /\ Edges # edges0
  /\ \E e \in Edges : Gap(e) > 1

\* C2 as stated: after the labelling every job's level is the length of the
\* longest path from a job without parents to it, so roots have level 0.
C2_LevelIsLongestPathFromRoots ==
  pc \in {"elim", "returned"} =>
    \A j \in dag : level[j] = Longest(edges0, j)

\* C2 amended: after the labelling every job's level is one more than the
\* length of the longest path from a job without parents to it (the length
\* of the longest path from the surrogate root); roots have level 1.
C2_LevelIsLongestPathFromSurrogate ==
  pc \in {"elim", "returned"} =>
    /\ \A j \in dag : level[j] = 1 + Longest(edges0, j)
    /\ \A j \in Roots(edges0) : level[j] = 1
    /\ level[root] = 0

\* C2 witness: the labelling just ended on a graph with two roots and a
\* path of two edges
C2_Witness ==
  /\ pc = "elim"
  /\ fifo = <<root>>
  /\ Cardinality(Roots(edges0)) >= 2
  /\ \E j \in dag : level[j] = 3

\* C3: once the labelling worklist is empty, and until simplify has
\* returned, every edge p -> c between jobs has level[c] >= level[p] + 1.
C3_LevelsFixedPoint ==
  pc \in {"elim", "returned"} => \A e \in Edges : Gap(e) >= 1

\* C3 witness: the labelling just ended and left an edge with a gap above 1,
\* whose child was pushed by parents of different levels
C3_Witness ==
  /\ pc = "elim"
  /\ fifo = <<root>>
  /\ examined = {}
  /\ \E e \in Edges : Gap(e) > 1

C5_InducedSubgraph ==
  (pc = "simplify" /\ run = 0) =>
    /\ dag = {j \in 1..MaxFilterNodes : name[j] \notin xforms}
    /\ \A j \in dag :
         /\ children[j] = {c \in dag : <<j, c>> \in loaded}
         /\ parents[j] = {p \in dag : <<p, j>> \in loaded}

\* C5 witness: A -> B -> C with B excluded gave jobs {A, C} and no edge
C5_Witness ==
  /\ pc = "simplify"
  /\ run = 0
  /\ {<<1, 2>>, <<2, 3>>} \subseteq loaded
  /\ <<1, 3>> \notin loaded
  /\ dag = {1, 3}
  /\ Edges = {}

\* C6: after every step of remove_xforms and simplify, p is in c.parents
\* iff c is in p.children for all jobs of the dag, and once simplify has
\* returned no job of the dag has the surrogate root as parent or child.
C6_AdjacencyConsistent ==
  /\ Consistent
  /\ pc = "returned" =>
       \A j \in dag : root \notin (parents[j] \cup children[j])

\* C6 witness: after remove_xforms removed a job, the elimination has just
\* completed the removal of an edge between the jobs that are left
C6_Witness ==
  /\ pc = "elim"
  /\ dag # 1..MaxFilterNodes
  /\ decision = "removed"
  /\ Edges # {}

\* C7 as stated: no error is raised, and the colour of a job whose name was
\* the k-th distinct one (k from 0) is palette entry k modulo the palette
\* size.
C7_CyclicPalette ==
  /\ pc \in {"emit_nodes", "emitted"} =>
       (written > 0 => lastColor = PaletteCyclic(lastName - 1))
  /\ pc # "raised"

\* C8: simplify eventually returns, with both worklists run empty and
\* without any list.remove having failed (a failed remove ends the run in
\* "raised", from which simplify never returns).
C8_SimplifyTotal ==
  <>(pc = "returned" /\ fifo = <<>> /\ kids = {} /\ err = FALSE)

\* C8 witness: simplify returned on a graph with several roots, keeping an
\* edge with a gap above 1 that has no alternative path
C8_Witness ==
  /\ pc = "returned"
  /\ err = FALSE
  /\ fifo = <<>>
  /\ Cardinality(Roots(edges0)) >= 2
  /\ \E e \in Edges : Gap(e) > 1 /\ ~AltPath(edges0, e)

\* C9 as stated: during one elimination pass no edge is examined twice.
C9_EachEdgeExaminedOnce == again = FALSE

\* C10: when simplify returns, the edges left are exactly the edges it was
\* entered with that have no other path from their parent to their child.
C10_TransitiveReduction ==
  pc = "returned" => Edges = {e \in edges0 : ~AltPath(edges0, e)}

\* C10 witness: the diamond A->B, A->C, B->D, C->D, A->D lost A->D only
C10_Witness ==
  /\ pc = "returned"
  /\ run = 1
  /\ edges0 = Diamond
  /\ Edges = Diamond \ {<<1, 4>>}
  /\ Cardinality(Edges) = 4

====
